---- MODULE Spec2Model ----
(***************************************************************************)
(* Forward inference over a structural functional model (SFM): a DAG of    *)
(* deterministic node functions.  The module models                        *)
(*   - sfm/model.py      the SFM container and its consistency checker,    *)
(*   - sfm/inference.py  delta_encode / delta_decode, vfi, cfi,            *)
(*   - sfm/partial.py    partial_vfi, partial_cfi,                         *)
(*   - sfm/generate.py   the RandomCongruence node function,               *)
(* driven by a caller that calls the evaluators directly, with the         *)
(* arguments their signatures name.  (tests/test_infer.py passes cfi and   *)
(* partial_cfi keywords they do not have, w1_changed_exo= and w1_c_exo=,   *)
(* so its calls raise TypeError before either evaluator is entered; the    *)
(* caller modelled here is not that test.)                                 *)
(*                                                                         *)
(* Python dicts are TLA+ functions whose DOMAIN is the key set; where the  *)
(* code depends on the insertion order of a dict (the checkers of          *)
(* sfm/model.py walk w_total.items()), the dict is the sequence of its     *)
(* items.  A call that raises is recorded by the name of the exception.    *)
(*                                                                         *)
(* Nodes are numbered by their position in the model's topological order,  *)
(* so every edge goes from a smaller to a larger number.  Every (DAG,      *)
(* topological order) pair is of this shape up to renaming of the nodes;   *)
(* the iteration order of Python sets, which the partial evaluators depend *)
(* on, is left free.                                                       *)
(***************************************************************************)
EXTENDS Integers, Sequences, FiniteSets, TLC

VARIABLES
    graph,            \* SFM.graph: the set of directed edges <<u, v>>
    fa,               \* RandomCongruence.a of every node function, per edge
    fc,               \* RandomCongruence.c of every node function, per endo node
    w_exo,            \* the assignment over the exo-nodes (w0_exo of the test)
    w0,               \* the baseline: the result of vfi(sfm, w_exo)
    w1_changed_exo,   \* the change set handed to cfi and partial_cfi
    w1_exo,           \* delta_decode(w1_changed_exo, w_exo)
    w1_enc,           \* delta_encode(w1_exo, w_exo)
    w0_enc,           \* delta_encode(w_exo, w1_exo)
    w1_dec,           \* delta_decode(w1_enc, w_exo)
    target_nodes,     \* the targets handed to partial_vfi / partial_cfi
    pc,               \* position of the driver and of the running evaluator
    w,                \* the running evaluator's output dict (w, w1 or w1_c)
    changed,          \* the running evaluator's changed dict
    idx,              \* position of the running loop in topological_order
    stack,            \* the running partial evaluator's stack (top = last)
    COUNT,            \* the running evaluator's count of function invocations
    invoked,          \* the nodes whose function the running evaluator invoked
    r_cfi,            \* how the call of cfi ended
    r_pvfi,           \* how the call of partial_vfi ended
    r_pcfi,           \* how the call of partial_cfi ended
    pushed_back,      \* the nodes the running partial evaluator pushed back, in order
    w_given,          \* the dict handed to satisfied_by / all_violations, as its items
    r_sat,            \* how the call of satisfied_by ended
    r_viol            \* how the call of all_violations ended

vars == <<graph, fa, fc, w_exo, w0, w1_changed_exo, w1_exo, w1_enc, w0_enc, w1_dec,
          target_nodes, pc, w, changed, idx, stack, COUNT, invoked,
          r_cfi, r_pvfi, r_pcfi, pushed_back, w_given, r_sat, r_viol>>

\* Number of nodes of the graphs explored.
NumNodes == 3

\* The parameter m of RandomCongruence: outputs are residues modulo m.
Modulus == 2

Nodes == 1..NumNodes

\* Values of exo-nodes, drawn as the tests draw them: randint(0, m).
Values == 0..(Modulus - 1)

\* The empty dict {}.
EmptyDict == [x \in {} |-> 0]

\* d[k] = v on a dict.
Put(d, k, v) == [x \in (DOMAIN d) \cup {k} |-> IF x = k THEN v ELSE d[x]]

\* {u: d[u] for u in S}
Restrict(d, S) == [x \in S |-> d[x]]

\* All dicts with keys inside K and values inside V.
Dicts(K, V) == UNION {[S -> V] : S \in SUBSET K}

\* All orders in which Python may iterate over the set S.
Orders(S) ==
    {s \in [1..Cardinality(S) -> S] : \A x \in S : \E i \in DOMAIN s : s[i] = x}

\* A dict as its caller built it: the sequence of its (key, value) pairs in
\* insertion order, which is the order w_total.items() walks.  items(d, order)
\* is the dict d built by inserting its keys in the given order.
items(d, order) == [i \in DOMAIN order |-> <<order[i], d[order[i]]>>]

\* The keys of a dict given by its items.
keys(w_items) == {w_items[i][1] : i \in DOMAIN w_items}

\* w_total[k] for a dict given by its items and one of its keys k.
lookup(w_items, k) == w_items[CHOOSE i \in DOMAIN w_items : w_items[i][1] = k][2]

-----------------------------------------------------------------------------
(* How a call ended: the exception raised, or "return" and the value. *)

NoResult == [outcome |-> "none", value |-> EmptyDict, COUNT |-> 0, invoked |-> {}]

Returned(v, n, inv) == [outcome |-> "return", value |-> v, COUNT |-> n, invoked |-> inv]

Raised(exc, n, inv) == [outcome |-> exc, value |-> EmptyDict, COUNT |-> n, invoked |-> inv]

-----------------------------------------------------------------------------
(* sfm/model.py: class SFM *)

\* The attributes an SFM instance has.  sfm.<name> for any other name raises
\* AttributeError.
SFM_attributes ==
    {"graph", "domains", "functions", "exo_nodes", "endo_nodes",
     "topological_order", "is_directed_acyclic_graph", "parents",
     "satisfied_by", "all_violations"}

hasattr(name) == name \in SFM_attributes

parents(node) == {p \in Nodes : <<p, node>> \in graph}

exo_nodes == {node \in Nodes : Cardinality(parents(node)) = 0}

endo_nodes == {node \in Nodes : Cardinality(parents(node)) > 0}

\* Mutation of topological_order: the order is walked backwards.
topological_order_reversed == [i \in 1..NumNodes |-> NumNodes + 1 - i]

topological_order == [i \in 1..NumNodes |-> i]

\* One round of the transitive closure of a relation over Nodes.
Compose(R) ==
    R \cup {<<p[1][1], p[2][2]>> : p \in {q \in R \X R : q[1][2] = q[2][1]}}

RECURSIVE Closure(_, _)
Closure(R, n) == IF n = 0 THEN R ELSE Closure(Compose(R), n - 1)

\* Mutation of is_directed_acyclic_graph: every graph passes for acyclic.
is_directed_acyclic_graph_unchecked == TRUE

is_directed_acyclic_graph ==
    \A node \in Nodes : <<node, node>> \notin Closure(graph, NumNodes)

\* The exo/endo classification the evaluators ask the model for.
is_exo_node(node) == node \in exo_nodes

-----------------------------------------------------------------------------
(* sfm/generate.py: class RandomCongruence *)

RECURSIVE WeightedSum(_, _, _)
WeightedSum(node, S, wd) ==
    IF S = {} THEN 0
    ELSE LET p == CHOOSE x \in S : TRUE
         IN  fa[<<p, node>>] * wd[p] + WeightedSum(node, S \ {p}, wd)

\* sfm.functions[node](wd), for wd holding a value for every parent of node.
functions(node, wd) == (WeightedSum(node, parents(node), wd) + fc[node]) % Modulus

\* The call sfm.functions[node](wd) raises KeyError when a parent has no value.
CallRaises(node, wd) == ~(parents(node) \subseteq DOMAIN wd)

\* {p: w_total[p] for p in self.graph.predecessors(node)}, for w_total given
\* by its items; KeyError when a parent of node is no key of w_total.
w_parent(w_total, node) == [p \in parents(node) |-> lookup(w_total, p)]

\* Mutation of the loop of satisfied_by: only the nodes with more than one
\* parent are compared to their function.
RECURSIVE satisfied_by_loop_in_degree_above_one(_, _)
satisfied_by_loop_in_degree_above_one(w_total, i) ==
    IF i > Len(w_total) THEN Returned(TRUE, 0, {})
    ELSE LET node == w_total[i][1]
             value == w_total[i][2]
         IN  IF Cardinality(parents(node)) > 1
             THEN IF ~(parents(node) \subseteq keys(w_total))
                  THEN Raised("KeyError", 0, {})
                  ELSE IF value # functions(node, w_parent(w_total, node))
                       THEN Returned(FALSE, 0, {})
                       ELSE satisfied_by_loop_in_degree_above_one(w_total, i + 1)
             ELSE satisfied_by_loop_in_degree_above_one(w_total, i + 1)

\* The loop of SFM.satisfied_by from the i-th item of w_total on, w_total
\* given by its items in insertion order: False at the first node with a
\* parent whose value is not the value of its function, KeyError at the first
\* node with a parent that is no key of w_total, True at the end.
RECURSIVE satisfied_by_loop(_, _)
satisfied_by_loop(w_total, i) ==
    IF i > Len(w_total) THEN Returned(TRUE, 0, {})
    ELSE LET node == w_total[i][1]
             value == w_total[i][2]
         IN  IF Cardinality(parents(node)) > 0
             THEN IF ~(parents(node) \subseteq keys(w_total))
                  THEN Raised("KeyError", 0, {})
                  ELSE IF value # functions(node, w_parent(w_total, node))
                       THEN Returned(FALSE, 0, {})
                       ELSE satisfied_by_loop(w_total, i + 1)
             ELSE satisfied_by_loop(w_total, i + 1)

\* SFM.satisfied_by(w_total): the assertion that every key of w_total is a
\* node of the graph, then the loop.
satisfied_by(w_total) ==
    IF ~(keys(w_total) \subseteq Nodes) THEN Raised("AssertionError", 0, {})
    ELSE satisfied_by_loop(w_total, 1)

\* The loop of SFM.all_violations over the first i items of w_total, w_total
\* given by its items in insertion order: the list of the triples (node,
\* expected, actual) of the nodes with a parent whose value is not the value
\* of their function on the values of their parents.  graph.in_degree raises
\* NetworkXError on a key that is no node of the graph, and building w_parent
\* raises KeyError when a parent is no key of w_total.
RECURSIVE all_violations_loop(_, _)
all_violations_loop(w_total, i) ==
    IF i = 0 THEN Returned(<<>>, 0, {})
    ELSE LET before == all_violations_loop(w_total, i - 1)
             violations == before.value
             node == w_total[i][1]
             actual == w_total[i][2]
             expected == functions(node, w_parent(w_total, node))
         IN  IF before.outcome # "return" THEN before
             ELSE IF node \notin Nodes THEN Raised("NetworkXError", 0, {})
             ELSE IF Cardinality(parents(node)) > 0
                  THEN IF ~(parents(node) \subseteq keys(w_total))
                       THEN Raised("KeyError", 0, {})
                       ELSE IF expected # actual
                            THEN Returned(Append(violations, <<node, expected, actual>>), 0, {})
                            ELSE before
                  ELSE before

\* SFM.all_violations(w_total)
all_violations(w_total) == all_violations_loop(w_total, Len(w_total))

-----------------------------------------------------------------------------
(* sfm/inference.py *)

\* Mutation of delta_encode: the comparison is inverted, so the equal pairs
\* are kept instead of the differing ones.
delta_encode_inverted(w1, wb) ==
    Restrict(w1, {node \in DOMAIN w1 : node \notin DOMAIN wb \/ w1[node] = wb[node]})

delta_encode(w1, wb) ==
    Restrict(w1, {node \in DOMAIN w1 : node \notin DOMAIN wb \/ w1[node] # wb[node]})

\* Mutation of delta_decode: the baseline wins over the change.
delta_decode_baseline_wins(w1_change, wb) ==
    [node \in (DOMAIN wb) \cup (DOMAIN w1_change) |->
        IF node \in DOMAIN wb THEN wb[node] ELSE w1_change[node]]

delta_decode(w1_change, wb) ==
    [node \in (DOMAIN wb) \cup (DOMAIN w1_change) |->
        IF node \in DOMAIN w1_change THEN w1_change[node] ELSE wb[node]]

\* One iteration of the loop of vfi on node, from the output dict wd.
vfi_step(wd, node) ==
    IF node \notin DOMAIN wd THEN Put(wd, node, functions(node, wd)) ELSE wd

RECURSIVE vfi_loop(_, _)
vfi_loop(wd, i) ==
    IF i > Len(topological_order) THEN wd
    ELSE vfi_loop(vfi_step(wd, topological_order[i]), i + 1)

\* vfi(sfm, wx) for an assignment wx that passes the assertions of vfi.
vfi(wx) == vfi_loop(wx, 1)

-----------------------------------------------------------------------------

AllEdges == {e \in Nodes \X Nodes : e[1] < e[2]}

Init ==
    /\ graph \in SUBSET AllEdges
    /\ fa \in [graph -> 1..(Modulus - 1)]
    /\ fc \in [endo_nodes -> 1..(Modulus - 1)]
    /\ w_exo \in [exo_nodes -> Values]
    /\ w0 = EmptyDict
    /\ w1_changed_exo = EmptyDict
    /\ w1_exo = EmptyDict
    /\ w1_enc = EmptyDict
    /\ w0_enc = EmptyDict
    /\ w1_dec = EmptyDict
    /\ target_nodes = {}
    /\ pc = "vfi_call"
    /\ w = EmptyDict
    /\ changed = EmptyDict
    /\ idx = 0
    /\ stack = <<>>
    /\ COUNT = 0
    /\ invoked = {}
    /\ r_cfi = NoResult
    /\ r_pvfi = NoResult
    /\ r_pcfi = NoResult
    /\ pushed_back = <<>>
    /\ w_given = <<>>
    /\ r_sat = NoResult
    /\ r_viol = NoResult

\* Mutation of copy: no copy is made, the callee's dict is the caller's, so
\* what the callee writes shows in the caller's dict.
copy_aliased(original, working) == working

\* w = original.copy(): the callee's dict is a dict of its own, so the caller's
\* dict is as it was, whatever the callee has written to make its dict
\* `working`.
copy(original, working) == original

\* The assertions of vfi.
vfi_asserts(wx) ==
    /\ is_directed_acyclic_graph
    /\ DOMAIN wx = exo_nodes

\* vfi(sfm, w_exo): the assertions and the copy of w_exo.
VfiEnter ==
    /\ pc = "vfi_call"
    /\ IF vfi_asserts(w_exo)
       THEN /\ pc' = "vfi_loop"
            /\ w' = w_exo
            /\ idx' = 1
       ELSE /\ pc' = "vfi_failed"
            /\ UNCHANGED <<w, idx>>
    /\ invoked' = {}
    /\ UNCHANGED <<pushed_back, w_given, r_sat, r_viol,
                   graph, fa, fc, w_exo, w0, w1_changed_exo, w1_exo, w1_enc, w0_enc, w1_dec,
                   target_nodes, changed, stack, COUNT, r_cfi, r_pvfi, r_pcfi>>

\* One iteration of the loop of vfi; a KeyError raised by the node function
\* ends the call, and after the last iteration vfi returns w, which the driver
\* keeps as the baseline w0.
VfiStep ==
    /\ pc = "vfi_loop"
    /\ idx <= Len(topological_order)
    /\ LET node == topological_order[idx]
       IN  IF node \notin DOMAIN w /\ CallRaises(node, w)
           THEN /\ pc' = "vfi_failed"
                /\ UNCHANGED <<w, w0, invoked, idx>>
           ELSE /\ w' = vfi_step(w, node)
                /\ invoked' = IF node \notin DOMAIN w THEN invoked \cup {node}
                                                      ELSE invoked
                /\ idx' = idx + 1
                /\ IF idx = Len(topological_order)
                   THEN pc' = "idle" /\ w0' = vfi_step(w, node)
                   ELSE pc' = pc /\ w0' = w0
    /\ w_exo' = copy(w_exo, w')
    /\ UNCHANGED <<pushed_back, w_given, r_sat, r_viol,
                   graph, fa, fc, w1_changed_exo, w1_exo, w1_enc, w0_enc, w1_dec,
                   target_nodes, changed, stack, COUNT, r_cfi, r_pvfi, r_pcfi>>

\* The driver picks the change set: any dict over exo-nodes, whose values may
\* or may not differ from the baseline (tweak_exo of the test, and more).
Tweak(C) ==
    /\ pc = "idle"
    /\ w1_changed_exo' = C
    /\ pc' = "decode"
    /\ UNCHANGED <<pushed_back, w_given, r_sat, r_viol,
                   graph, fa, fc, w_exo, w0, w1_exo, w1_enc, w0_enc, w1_dec, target_nodes,
                   w, changed, idx, stack, COUNT, invoked, r_cfi, r_pvfi, r_pcfi>>

\* w1_exo = delta_decode(w1_changed_exo, w0=w_exo)
DeltaDecode ==
    /\ pc = "decode"
    /\ w1_exo' = delta_decode(w1_changed_exo, w_exo)
    /\ pc' = "encode"
    /\ w_exo' = copy(w_exo, w1_exo')
    /\ UNCHANGED <<pushed_back, w_given, r_sat, r_viol,
                   graph, fa, fc, w0, w1_changed_exo, w1_enc, w0_enc, w1_dec,
                   target_nodes, w, changed, idx, stack, COUNT, invoked,
                   r_cfi, r_pvfi, r_pcfi>>

\* w1_enc = delta_encode(w1=w1_exo, w0=w_exo)
DeltaEncode ==
    /\ pc = "encode"
    /\ w1_enc' = delta_encode(w1_exo, w_exo)
    /\ pc' = "encode_back"
    /\ UNCHANGED <<pushed_back, w_given, r_sat, r_viol,
                   graph, fa, fc, w_exo, w0, w1_changed_exo, w1_exo, w0_enc, w1_dec,
                   target_nodes, w, changed, idx, stack, COUNT, invoked,
                   r_cfi, r_pvfi, r_pcfi>>

\* w0_enc = delta_encode(w_exo, w0=w1_exo): the encoding the other way round,
\* as test_delta_compression makes it.
DeltaEncodeBack ==
    /\ pc = "encode_back"
    /\ w0_enc' = delta_encode(w_exo, w1_exo)
    /\ pc' = "decode_again"
    /\ UNCHANGED <<pushed_back, w_given, r_sat, r_viol,
                   graph, fa, fc, w_exo, w0, w1_changed_exo, w1_exo, w1_enc, w1_dec,
                   target_nodes, w, changed, idx, stack, COUNT, invoked,
                   r_cfi, r_pvfi, r_pcfi>>

\* w1_dec = delta_decode(w1_enc, w0=w_exo)
DeltaDecodeAgain ==
    /\ pc = "decode_again"
    /\ w1_dec' = delta_decode(w1_enc, w_exo)
    /\ pc' = "cfi_call"
    /\ w_exo' = copy(w_exo, w1_dec')
    /\ UNCHANGED <<pushed_back, w_given, r_sat, r_viol,
                   graph, fa, fc, w0, w1_changed_exo, w1_exo, w1_enc, w0_enc,
                   target_nodes, w, changed, idx, stack, COUNT, invoked,
                   r_cfi, r_pvfi, r_pcfi>>

-----------------------------------------------------------------------------
(* sfm/inference.py: cfi(sfm, w1_change_exo, w0) *)

\* The assertions of cfi.
\* Mutation of cfi_asserts: the baseline is not asserted to cover the nodes.
cfi_asserts_no_baseline_check(w1_change_exo, wb) ==
    /\ is_directed_acyclic_graph
    /\ \A u \in DOMAIN w1_change_exo : u \in exo_nodes

\* Mutation of cfi_asserts: the keys of the change set are not asserted to be
\* exo-nodes.
cfi_asserts_no_exo_check(w1_change_exo, wb) ==
    /\ is_directed_acyclic_graph
    /\ \A u \in Nodes : u \in DOMAIN wb

cfi_asserts(w1_change_exo, wb) ==
    /\ is_directed_acyclic_graph
    /\ \A u \in DOMAIN w1_change_exo : u \in exo_nodes
    /\ \A u \in Nodes : u \in DOMAIN wb

\* Mutation of cfi_changed_init: every key of the change set counts as
\* changed, whatever its value.
cfi_changed_init_by_key(w1_change_exo, wb) ==
    [u \in Nodes |-> u \in DOMAIN w1_change_exo]

\* The changed dict cfi starts from.
cfi_changed_init(w1_change_exo, wb) ==
    [u \in Nodes |-> u \in DOMAIN w1_change_exo /\ w1_change_exo[u] # wb[u]]

\* The initialisation of changed reads w0[u] for a node u of the change set
\* for which the baseline has no value, which raises KeyError.
cfi_init_reads_missing(w1_change_exo, wb) ==
    \E u \in Nodes : u \in DOMAIN w1_change_exo /\ u \notin DOMAIN wb

\* recompute node u if u or any of its parents have changed
cfi_recompute(ch, u) == ch[u] \/ \E parent \in parents(u) : ch[parent]

\* The iteration of cfi on node u reads w0[u] although the baseline has no
\* value for u, which raises KeyError: when u is not recomputed (w1[u] =
\* w0[u]) and when a recomputed endo-node's new value is compared to w0[u].
cfi_reads_missing(st, u, wb) ==
    /\ u \notin DOMAIN wb
    /\ \/ ~cfi_recompute(st.changed, u)
       \/ hasattr("is_exo_node") /\ ~is_exo_node(u) /\ ~CallRaises(u, st.w1)

\* Mutation of cfi_step: COUNT is incremented for every node visited, not
\* only when a node function is invoked.
cfi_step_count_every_node(st, u, w1_change_exo, wb) ==
    IF cfi_reads_missing(st, u, wb)
    THEN [st EXCEPT !.exc = "KeyError"]
    ELSE IF cfi_recompute(st.changed, u)
    THEN IF ~hasattr("is_exo_node")
         THEN [st EXCEPT !.exc = "AttributeError", !.COUNT = st.COUNT + 1]
         ELSE IF is_exo_node(u)
         THEN [st EXCEPT !.w1 = Put(st.w1, u, w1_change_exo[u]),
                         !.COUNT = st.COUNT + 1]
         ELSE IF CallRaises(u, st.w1)
         THEN [st EXCEPT !.exc = "KeyError", !.COUNT = st.COUNT + 1]
         ELSE LET new_val == functions(u, st.w1)
              IN  IF new_val # wb[u]
                  THEN [st EXCEPT !.w1 = Put(st.w1, u, new_val),
                                  !.changed = Put(st.changed, u, TRUE),
                                  !.COUNT = st.COUNT + 1,
                                  !.invoked = st.invoked \cup {u}]
                  ELSE [st EXCEPT !.w1 = Put(st.w1, u, wb[u]),
                                  !.COUNT = st.COUNT + 1,
                                  !.invoked = st.invoked \cup {u}]
    ELSE [st EXCEPT !.w1 = Put(st.w1, u, wb[u]), !.COUNT = st.COUNT + 1]

\* Mutation of cfi_step: a node that is not to be recomputed has its function
\* invoked all the same.
cfi_step_invoke_every_node(st, u, w1_change_exo, wb) ==
    IF cfi_reads_missing(st, u, wb)
    THEN [st EXCEPT !.exc = "KeyError"]
    ELSE IF cfi_recompute(st.changed, u)
    THEN IF ~hasattr("is_exo_node")
         THEN [st EXCEPT !.exc = "AttributeError"]
         ELSE IF is_exo_node(u)
         THEN [st EXCEPT !.w1 = Put(st.w1, u, w1_change_exo[u])]
         ELSE IF CallRaises(u, st.w1)
         THEN [st EXCEPT !.exc = "KeyError"]
         ELSE LET new_val == functions(u, st.w1)
              IN  IF new_val # wb[u]
                  THEN [st EXCEPT !.w1 = Put(st.w1, u, new_val),
                                  !.changed = Put(st.changed, u, TRUE),
                                  !.COUNT = st.COUNT + 1,
                                  !.invoked = st.invoked \cup {u}]
                  ELSE [st EXCEPT !.w1 = Put(st.w1, u, wb[u]),
                                  !.COUNT = st.COUNT + 1,
                                  !.invoked = st.invoked \cup {u}]
    ELSE [st EXCEPT !.w1 = Put(st.w1, u, wb[u]),
                    !.COUNT = st.COUNT + 1,
                    !.invoked = st.invoked \cup {u}]

\* One iteration of the loop of cfi on node u, from the loop state st =
\* [w1, changed, COUNT, invoked]; exc is the exception the iteration raises.
cfi_step(st, u, w1_change_exo, wb) ==
    IF cfi_reads_missing(st, u, wb)
    THEN [st EXCEPT !.exc = "KeyError"]
    ELSE IF cfi_recompute(st.changed, u)
    THEN IF ~hasattr("is_exo_node")
         THEN [st EXCEPT !.exc = "AttributeError"]
         ELSE IF is_exo_node(u)
         THEN [st EXCEPT !.w1 = Put(st.w1, u, w1_change_exo[u])]
         ELSE IF CallRaises(u, st.w1)
         THEN [st EXCEPT !.exc = "KeyError"]
         ELSE LET new_val == functions(u, st.w1)
              IN  IF new_val # wb[u]
                  THEN [st EXCEPT !.w1 = Put(st.w1, u, new_val),
                                  !.changed = Put(st.changed, u, TRUE),
                                  !.COUNT = st.COUNT + 1,
                                  !.invoked = st.invoked \cup {u}]
                  ELSE [st EXCEPT !.w1 = Put(st.w1, u, wb[u]),
                                  !.COUNT = st.COUNT + 1,
                                  !.invoked = st.invoked \cup {u}]
    ELSE [st EXCEPT !.w1 = Put(st.w1, u, wb[u])]

CfiEnter ==
    /\ pc = "cfi_call"
    /\ IF ~cfi_asserts(w1_changed_exo, w0)
       THEN /\ pc' = "cfi_done"
            /\ r_cfi' = Raised("AssertionError", 0, {})
            /\ UNCHANGED <<w, changed>>
       ELSE IF cfi_init_reads_missing(w1_changed_exo, w0)
       THEN /\ pc' = "cfi_done"
            /\ r_cfi' = Raised("KeyError", 0, {})
            /\ UNCHANGED <<w, changed>>
       ELSE /\ pc' = "cfi_loop"
            /\ changed' = cfi_changed_init(w1_changed_exo, w0)
            /\ w' = EmptyDict
            /\ r_cfi' = r_cfi
    /\ idx' = 1
    /\ COUNT' = 0
    /\ invoked' = {}
    /\ UNCHANGED <<pushed_back, w_given, r_sat, r_viol,
                   graph, fa, fc, w_exo, w0, w1_changed_exo, w1_exo, w1_enc, w0_enc, w1_dec,
                   target_nodes, stack, r_pvfi, r_pcfi>>

\* One iteration of the loop of cfi; an exception ends the call, and after the
\* last iteration cfi returns w1.
CfiStep ==
    /\ pc = "cfi_loop"
    /\ idx <= Len(topological_order)
    /\ LET st == cfi_step([w1 |-> w, changed |-> changed, COUNT |-> COUNT,
                           invoked |-> invoked, exc |-> "none"],
                          topological_order[idx], w1_changed_exo, w0)
       IN  /\ w' = st.w1
           /\ changed' = st.changed
           /\ COUNT' = st.COUNT
           /\ invoked' = st.invoked
           /\ idx' = idx + 1
           /\ IF st.exc # "none"
              THEN pc' = "cfi_done" /\ r_cfi' = Raised(st.exc, st.COUNT, st.invoked)
              ELSE IF idx = Len(topological_order)
              THEN pc' = "cfi_done" /\ r_cfi' = Returned(st.w1, st.COUNT, st.invoked)
              ELSE pc' = pc /\ r_cfi' = r_cfi
    /\ UNCHANGED <<pushed_back, w_given, r_sat, r_viol,
                   graph, fa, fc, w_exo, w0, w1_changed_exo, w1_exo, w1_enc, w0_enc, w1_dec,
                   target_nodes, stack, r_pvfi, r_pcfi>>

-----------------------------------------------------------------------------
(* sfm/partial.py: partial_vfi(sfm, w_exo, target_nodes) *)

\* The assertions of partial_vfi.
\* Mutation of partial_vfi_asserts: the keys of the root values are not
\* asserted to be the exo-nodes.
partial_vfi_asserts_no_root_check(wx, T) ==
    /\ is_directed_acyclic_graph
    /\ T \ Nodes = {}

partial_vfi_asserts(wx, T) ==
    /\ is_directed_acyclic_graph
    /\ DOMAIN wx = exo_nodes
    /\ T \ Nodes = {}

\* Mutation of unknown_parents: no parent is ever reported unknown, so a
\* node is computed the first time it is popped.
unknown_parents_none(node, known) == {}

\* Mutation of unknown_parents: every unknown node that comes before the node
\* in topological order is reported, whether it is a parent or not.
unknown_parents_all_earlier(node, known) == {p \in Nodes : p < node /\ p \notin known}

\* Mutation of unknown_parents: the filter is missing, so every parent is
\* reported unknown whether it has a value or not.
unknown_parents_unfiltered(node, known) == parents(node)

\* [p for p in parent_nodes if p not in w], as a set.
unknown_parents(node, known) == {p \in parents(node) : p \notin known}

\* Mutation of partial_vfi_resolves: a popped node that has parents is
\* resolved whether or not it has a value already.
partial_vfi_resolves_known_too(node, known) == parents(node) # {}

\* if node not in w: ... if parents: the popped node has no value yet and has
\* parents, so it is to be resolved.
partial_vfi_resolves(node, known) == node \notin known /\ parents(node) # {}

\* The stack without its top.
Pop(stk) == SubSeq(stk, 1, Len(stk) - 1)

\* The driver picks the targets T and calls partial_vfi(sfm, w_exo, T);
\* list(target_nodes) lists T in any order.
PartialVfiEnter(T) ==
    /\ pc = "idle"
    /\ target_nodes' = T
    /\ IF partial_vfi_asserts(w_exo, T)
       THEN /\ pc' = "pvfi_loop"
            /\ w' = w_exo
            /\ \E ord \in Orders(T) : stack' = ord
            /\ r_pvfi' = r_pvfi
       ELSE /\ pc' = "pvfi_done"
            /\ r_pvfi' = Raised("AssertionError", 0, {})
            /\ UNCHANGED <<w, stack>>
    /\ COUNT' = 0
    /\ invoked' = {}
    /\ pushed_back' = <<>>
    /\ UNCHANGED <<w_given, r_sat, r_viol,
                   graph, fa, fc, w_exo, w0, w1_changed_exo, w1_exo, w1_enc, w0_enc, w1_dec,
                   changed, idx, r_cfi, r_pcfi>>

\* One iteration of the while loop of partial_vfi: pop a node and either
\* skip it, push it back followed by its unknown parents, or compute it.
PartialVfiStep ==
    /\ pc = "pvfi_loop"
    /\ stack # <<>>
    /\ LET node == stack[Len(stack)]
           unknown == unknown_parents(node, DOMAIN w)
       IN  IF partial_vfi_resolves(node, DOMAIN w)
           THEN IF unknown # {}
                THEN /\ \E ord \in Orders(unknown) :
                            stack' = Pop(stack) \o <<node>> \o ord
                     /\ pushed_back' = Append(pushed_back, node)
                     /\ UNCHANGED <<w, COUNT, invoked, pc, r_pvfi>>
                ELSE IF CallRaises(node, w)
                THEN /\ stack' = Pop(stack)
                     /\ COUNT' = COUNT + 1
                     /\ pc' = "pvfi_done"
                     /\ r_pvfi' = Raised("KeyError", COUNT + 1, invoked)
                     /\ UNCHANGED <<w, invoked, pushed_back>>
                ELSE /\ stack' = Pop(stack)
                     /\ COUNT' = COUNT + 1
                     /\ invoked' = invoked \cup {node}
                     /\ w' = Put(w, node, functions(node, w))
                     /\ UNCHANGED <<pc, r_pvfi, pushed_back>>
           ELSE /\ stack' = Pop(stack)
                /\ UNCHANGED <<w, COUNT, invoked, pc, r_pvfi, pushed_back>>
    /\ w_exo' = copy(w_exo, w')
    /\ UNCHANGED <<w_given, r_sat, r_viol,
                   graph, fa, fc, w0, w1_changed_exo, w1_exo, w1_enc, w0_enc, w1_dec,
                   target_nodes, changed, idx, r_cfi, r_pcfi>>

\* The loop is over: return {u: w[u] for u in target_nodes}.
PartialVfiReturn ==
    /\ pc = "pvfi_loop"
    /\ stack = <<>>
    /\ pc' = "pvfi_done"
    /\ r_pvfi' = IF target_nodes \subseteq DOMAIN w
                 THEN Returned(Restrict(w, target_nodes), COUNT, invoked)
                 ELSE Raised("KeyError", COUNT, invoked)
    /\ UNCHANGED <<pushed_back, w_given, r_sat, r_viol,
                   graph, fa, fc, w_exo, w0, w1_changed_exo, w1_exo, w1_enc, w0_enc, w1_dec,
                   target_nodes, w, changed, idx, stack, COUNT, invoked,
                   r_cfi, r_pcfi>>

-----------------------------------------------------------------------------
(* sfm/partial.py: partial_cfi(sfm, w0, w1_changed_exo, target_nodes) *)

\* What the checks at the head of partial_cfi raise ("none": they pass).
\* Mutation of partial_cfi_checks: the targets are not checked to be nodes.
partial_cfi_checks_no_target_check(wb, C, T) ==
    IF ~is_directed_acyclic_graph THEN "AssertionError"
    ELSE IF C # EmptyDict /\ ~hasattr("is_exo_node") THEN "AttributeError"
    ELSE IF \E u \in DOMAIN C : ~is_exo_node(u) THEN "ValueError"
    ELSE IF \E u \in DOMAIN C : u \notin DOMAIN wb THEN "KeyError"
    ELSE "none"

partial_cfi_checks(wb, C, T) ==
    IF ~is_directed_acyclic_graph THEN "AssertionError"
    ELSE IF C # EmptyDict /\ ~hasattr("is_exo_node") THEN "AttributeError"
    ELSE IF \E u \in DOMAIN C : ~is_exo_node(u) THEN "ValueError"
    ELSE IF \E u \in T : u \notin Nodes THEN "ValueError"
    ELSE IF \E u \in DOMAIN C : u \notin DOMAIN wb THEN "KeyError"
    ELSE "none"

\* changed = {u: w1_changed_exo[u] != w0[u] for u in w1_changed_exo}
partial_cfi_changed_init(wb, C) == [u \in DOMAIN C |-> C[u] # wb[u]]

\* w1_c = {u: w1_changed_exo[u] for u in w1_changed_exo if changed[u]}
partial_cfi_w1_c_init(wb, C) == Restrict(C, {u \in DOMAIN C : C[u] # wb[u]})

\* The parent assignment partial_cfi hands to the function of node.
partial_cfi_w_parents(node, ch, w1_c, wb) ==
    [p \in parents(node) |-> IF ch[p] THEN w1_c[p] ELSE wb[p]]

\* The driver picks the targets T and calls partial_cfi(sfm, w0,
\* w1_changed_exo, T); list(target_nodes) lists T in any order.
PartialCfiEnter(T) ==
    /\ pc = "cfi_done"
    /\ target_nodes' = T
    /\ LET exc == partial_cfi_checks(w0, w1_changed_exo, T)
       IN  IF exc = "none"
           THEN /\ pc' = "pcfi_loop"
                /\ changed' = partial_cfi_changed_init(w0, w1_changed_exo)
                /\ w' = partial_cfi_w1_c_init(w0, w1_changed_exo)
                /\ \E ord \in Orders(T) : stack' = ord
                /\ r_pcfi' = r_pcfi
           ELSE /\ pc' = "pcfi_done"
                /\ r_pcfi' = Raised(exc, 0, {})
                /\ UNCHANGED <<w, changed, stack>>
    /\ COUNT' = 0
    /\ invoked' = {}
    /\ pushed_back' = <<>>
    /\ UNCHANGED <<w_given, r_sat, r_viol,
                   graph, fa, fc, w_exo, w0, w1_changed_exo, w1_exo, w1_enc, w0_enc, w1_dec,
                   idx, r_cfi, r_pvfi>>

\* One iteration of the while loop of partial_cfi.
PartialCfiStep ==
    /\ pc = "pcfi_loop"
    /\ stack # <<>>
    /\ LET node == stack[Len(stack)]
           unknown == unknown_parents(node, DOMAIN changed)
       IN  IF node \in DOMAIN changed
           THEN /\ stack' = Pop(stack)
                /\ UNCHANGED <<w, changed, COUNT, invoked, pc, r_pcfi, pushed_back>>
           ELSE IF ~hasattr("is_exo_node")
           THEN /\ stack' = Pop(stack)
                /\ pc' = "pcfi_done"
                /\ r_pcfi' = Raised("AttributeError", COUNT, invoked)
                /\ UNCHANGED <<w, changed, COUNT, invoked, pushed_back>>
           ELSE IF is_exo_node(node)
           THEN /\ stack' = Pop(stack)
                /\ changed' = Put(changed, node, FALSE)
                /\ UNCHANGED <<w, COUNT, invoked, pc, r_pcfi, pushed_back>>
           ELSE IF unknown # {}
           THEN /\ \E ord \in Orders(unknown) :
                       stack' = Pop(stack) \o <<node>> \o ord
                /\ pushed_back' = Append(pushed_back, node)
                /\ UNCHANGED <<w, changed, COUNT, invoked, pc, r_pcfi>>
           ELSE IF \E p \in parents(node) : changed[p]
           THEN LET value == functions(node, partial_cfi_w_parents(node, changed, w, w0))
                IN  /\ stack' = Pop(stack)
                    /\ COUNT' = COUNT + 1
                    /\ invoked' = invoked \cup {node}
                    /\ changed' = Put(changed, node, value # w0[node])
                    /\ w' = IF value # w0[node] THEN Put(w, node, value) ELSE w
                    /\ UNCHANGED <<pc, r_pcfi, pushed_back>>
           ELSE /\ stack' = Pop(stack)
                /\ changed' = Put(changed, node, FALSE)
                /\ UNCHANGED <<w, COUNT, invoked, pc, r_pcfi, pushed_back>>
    /\ UNCHANGED <<w_given, r_sat, r_viol,
                   graph, fa, fc, w_exo, w0, w1_changed_exo, w1_exo, w1_enc, w0_enc, w1_dec,
                   target_nodes, idx, r_cfi, r_pvfi>>

\* The loop is over: return {u: w1_c[u] if changed[u] else w0[u] for u in
\* target_nodes}.
PartialCfiReturn ==
    /\ pc = "pcfi_loop"
    /\ stack = <<>>
    /\ pc' = "pcfi_done"
    /\ r_pcfi' = IF target_nodes \subseteq DOMAIN changed
                 THEN Returned([u \in target_nodes |->
                                   IF changed[u] THEN w[u] ELSE w0[u]], COUNT, invoked)
                 ELSE Raised("KeyError", COUNT, invoked)
    /\ UNCHANGED <<pushed_back, w_given, r_sat, r_viol,
                   graph, fa, fc, w_exo, w0, w1_changed_exo, w1_exo, w1_enc, w0_enc, w1_dec,
                   target_nodes, w, changed, idx, stack, COUNT, invoked,
                   r_cfi, r_pvfi>>

-----------------------------------------------------------------------------
(* A caller of the evaluators: vfi on the root values; then either
   partial_vfi on some targets, or a change set, the delta functions on it in
   both directions, cfi on the change set and the baseline vfi returned, and
   partial_cfi on some targets. *)

Next ==
    \/ VfiEnter
    \/ VfiStep
    \/ \E C \in Dicts(exo_nodes, Values) : Tweak(C)
    \/ DeltaDecode
    \/ DeltaEncode
    \/ DeltaEncodeBack
    \/ DeltaDecodeAgain
    \/ CfiEnter
    \/ CfiStep
    \/ \E T \in SUBSET Nodes : PartialVfiEnter(T)
    \/ PartialVfiStep
    \/ PartialVfiReturn
    \/ \E T \in SUBSET Nodes : PartialCfiEnter(T)
    \/ PartialCfiStep
    \/ PartialCfiReturn

Spec == Init /\ [][Next]_vars

-----------------------------------------------------------------------------
(* The evaluators called on input they must reject: a graph with a cycle,
   root values over the wrong keys, a baseline that misses a node or has a
   key too many, a change set with a key that is no exo-node, targets outside
   the graph.  A behaviour has at most one input that fails an assertion on
   the graph or on the keys of the roots, the baseline or the change set; a
   baseline with a key too many fails none. *)

\* A node that is not in the graph.
Stranger == NumNodes + 1

\* Some value of a node.
AnyValue == CHOOSE v \in Values : TRUE

\* The edge sets with a cycle: a forward edge set plus one edge back, from j
\* to i, where j is reachable from i.
CyclicGraphs ==
    {g \in {fwd \cup {<<e[2], e[1]>>} : fwd \in SUBSET AllEdges, e \in AllEdges} :
        \E n \in Nodes : <<n, n>> \in Closure(g, NumNodes)}

\* Root values over the wrong keys: an exo-node is missing, or there is a key
\* that is no exo-node.
RootsErr ==
    {[u \in exo_nodes \ {r} |-> AnyValue] : r \in exo_nodes}
        \cup {[u \in exo_nodes \cup {k} |-> AnyValue] :
                 k \in (Nodes \ exo_nodes) \cup {Stranger}}

\* The baseline wb with the value of one node dropped, or with a value for a
\* node that is not in the graph.
BaselinesErr(wb) ==
    {Restrict(wb, DOMAIN wb \ {u}) : u \in DOMAIN wb}
        \cup {Put(wb, Stranger, AnyValue)}

\* The change sets over at most one exo-node.
ChangesOk == {C \in Dicts(exo_nodes, Values) : Cardinality(DOMAIN C) <= 1}

\* A change set of ChangesOk plus one key that is no exo-node.
ChangesErr ==
    {Put(C, k, AnyValue) : C \in ChangesOk, k \in (Nodes \ exo_nodes) \cup {Stranger}}

\* The target sets: no target, one node, or the stranger with or without a node.
TargetsErr ==
    {T \in SUBSET (Nodes \cup {Stranger}) :
        \/ Cardinality(T) <= 1
        \/ Cardinality(T) = 2 /\ Stranger \in T}

\* The number of defects in the model and the root values.
DefectsAtStart ==
    (IF is_directed_acyclic_graph THEN 0 ELSE 1)
        + (IF DOMAIN w_exo = exo_nodes THEN 0 ELSE 1)

\* The number of assertions of cfi that the baseline b and the change set C
\* fail: b has a value for every node (keys beyond the nodes pass), and every
\* key of C is an exo-node.
DefectsOf(b, C) ==
    (IF Nodes \subseteq DOMAIN b THEN 0 ELSE 1)
        + (IF DOMAIN C \subseteq exo_nodes THEN 0 ELSE 1)

Init_Err ==
    /\ graph \in (SUBSET AllEdges) \cup CyclicGraphs
    /\ fa \in [graph -> 1..(Modulus - 1)]
    /\ fc \in [endo_nodes -> 1..(Modulus - 1)]
    /\ \/ w_exo \in [exo_nodes -> Values]
       \/ is_directed_acyclic_graph /\ w_exo \in RootsErr
    /\ w0 = EmptyDict
    /\ w1_changed_exo = EmptyDict
    /\ w1_exo = EmptyDict
    /\ w1_enc = EmptyDict
    /\ w0_enc = EmptyDict
    /\ w1_dec = EmptyDict
    /\ target_nodes = {}
    /\ pc = "vfi_call"
    /\ w = EmptyDict
    /\ changed = EmptyDict
    /\ idx = 0
    /\ stack = <<>>
    /\ COUNT = 0
    /\ invoked = {}
    /\ r_cfi = NoResult
    /\ r_pvfi = NoResult
    /\ r_pcfi = NoResult
    /\ pushed_back = <<>>
    /\ w_given = <<>>
    /\ r_sat = NoResult
    /\ r_viol = NoResult

\* vfi gave no baseline: the driver goes on with a baseline of its own making.
HandMadeBaseline ==
    /\ pc = "vfi_failed"
    /\ w0' = [u \in Nodes |-> AnyValue]
    /\ pc' = "idle"
    /\ UNCHANGED <<pushed_back, w_given, r_sat, r_viol,
                   graph, fa, fc, w_exo, w1_changed_exo, w1_exo, w1_enc, w0_enc, w1_dec,
                   target_nodes, w, changed, idx, stack, COUNT, invoked,
                   r_cfi, r_pvfi, r_pcfi>>

\* The driver picks the baseline b and the change set C that it hands to cfi
\* and then to partial_cfi.
Handover(b, C) ==
    /\ pc = "idle"
    /\ DefectsAtStart + DefectsOf(b, C) <= 1
    /\ w0' = b
    /\ w1_changed_exo' = C
    /\ pc' = "cfi_call"
    /\ UNCHANGED <<pushed_back, w_given, r_sat, r_viol,
                   graph, fa, fc, w_exo, w1_exo, w1_enc, w0_enc, w1_dec,
                   target_nodes, w, changed, idx, stack, COUNT, invoked,
                   r_cfi, r_pvfi, r_pcfi>>

Next_Err ==
    \/ VfiEnter
    \/ VfiStep
    \/ HandMadeBaseline
    \/ /\ pc = "idle"
       /\ \E b \in {w0} \cup BaselinesErr(w0) :
            \E C \in ChangesOk \cup ChangesErr : Handover(b, C)
    \/ CfiEnter
    \/ CfiStep
    \/ /\ pc = "idle"
       /\ \E T \in TargetsErr :
            /\ T \subseteq Nodes \/ DefectsAtStart = 0
            /\ PartialVfiEnter(T)
    \/ PartialVfiStep
    \/ PartialVfiReturn
    \/ /\ pc = "cfi_done"
       /\ \E T \in TargetsErr :
            /\ T \subseteq Nodes \/ DefectsAtStart + DefectsOf(w0, w1_changed_exo) = 0
            /\ PartialCfiEnter(T)
    \/ PartialCfiStep
    \/ PartialCfiReturn

SpecErr == Init_Err /\ [][Next_Err]_vars

-----------------------------------------------------------------------------
(* Properties *)

\* The calls of delta_decode, delta_encode and delta_decode again are over.
CodecDone == pc \in {"cfi_call", "cfi_loop", "cfi_done", "pcfi_loop", "pcfi_done"}

\* The call of cfi is over (it returned or raised).
CfiOver == r_cfi.outcome # "none"

\* The exo-nodes whose value in the change set differs from the baseline.
ChangedRoots ==
    {u \in DOMAIN w1_changed_exo : w1_changed_exo[u] # w0[u]}

\* node together with everything reachable backward along edges.
Ancestors(node) ==
    {node} \cup {a \in Nodes : <<a, node>> \in Closure(graph, NumNodes)}

\* The endo-nodes that have a changed exo-node among their ancestors.
Affected == {u \in endo_nodes : Ancestors(u) \cap ChangedRoots # {}}

\* C1: delta/full equivalence: every call of cfi on a baseline w0 = vfi(w_exo)
\* and a change set over exo-nodes returns, and returns the assignment that
\* vfi computes from delta_decode(change set, w_exo).
C1_DeltaFullEquivalence ==
    CfiOver =>
        /\ r_cfi.outcome = "return"
        /\ r_cfi.value = vfi(delta_decode(w1_changed_exo, w_exo))

\* C2: delta-partial equivalence: whenever cfi returned, partial_cfi on the
\* same baseline and change set and on any target set T returns the
\* restriction to T of what cfi returned.
C2_DeltaPartialEquivalence ==
    (r_cfi.outcome = "return" /\ r_pcfi.outcome # "none") =>
        /\ r_pcfi.outcome = "return"
        /\ r_pcfi.value = Restrict(r_cfi.value, target_nodes)

\* C3: partial/full equivalence: every call of partial_vfi returns a dict
\* whose key set is exactly the target set and which equals the restriction
\* to the targets of the assignment vfi returned for the same exo values.
C3_PartialFullEquivalence ==
    r_pvfi.outcome # "none" =>
        /\ r_pvfi.outcome = "return"
        /\ DOMAIN r_pvfi.value = target_nodes
        /\ r_pvfi.value = Restrict(w0, target_nodes)

\* C3 witness: partial_vfi returned for a proper, non-empty target set after
\* invoking at least two node functions.
C3_Witness ==
    /\ r_pvfi.outcome = "return"
    /\ target_nodes # {} /\ target_nodes # Nodes
    /\ r_pvfi.COUNT >= 2

\* C4: consistency of full evaluation: vfi returns, and the total assignment it
\* returns satisfies the model: satisfied_by(vfi(sfm, w_exo)) is true, in
\* whatever order the keys of the assignment were inserted.
C4_VfiSatisfied ==
    pc \notin {"vfi_call", "vfi_loop"} =>
        /\ pc # "vfi_failed"
        /\ DOMAIN w0 = Nodes
        /\ pc = "idle" =>
              \A order \in Orders(Nodes) :
                  satisfied_by(items(w0, order)) = Returned(TRUE, 0, {})

\* C4 witness: vfi returned on a graph with an endo-node that has an endo-node
\* among its parents.
C4_Witness ==
    /\ pc = "idle"
    /\ \E u \in endo_nodes : parents(u) \cap endo_nodes # {}

\* C5: encode-then-decode round trip: for w1_exo and w_exo over the same key
\* set, delta_decode(delta_encode(w1_exo, w_exo), w_exo) = w1_exo.
C5_EncodeDecodeRoundTrip ==
    (CodecDone /\ DOMAIN w1_exo = DOMAIN w_exo) => w1_dec = w1_exo

\* C5 witness: the round trip was made on assignments that differ on some
\* keys and agree on others.
C5_Witness ==
    /\ CodecDone
    /\ DOMAIN w1_exo = DOMAIN w_exo
    /\ w1_enc # EmptyDict
    /\ DOMAIN w1_enc # DOMAIN w1_exo

\* C6 as claimed: decode-then-encode round trip for any partial assignment d
\* with keys among those of w_exo: delta_encode(delta_decode(d, w_exo), w_exo)
\* = d.
C6_DecodeEncodeRoundTrip_Original ==
    (CodecDone /\ DOMAIN w1_changed_exo \subseteq DOMAIN w_exo) =>
        w1_enc = w1_changed_exo

\* C6 as amended: decode-then-encode round trip for any partial assignment d
\* with keys among those of w_exo and every value different from the value of
\* w_exo at that key: delta_encode(delta_decode(d, w_exo), w_exo) = d.
C6_DecodeEncodeRoundTrip ==
    (/\ CodecDone
     /\ DOMAIN w1_changed_exo \subseteq DOMAIN w_exo
     /\ \A u \in DOMAIN w1_changed_exo : w1_changed_exo[u] # w_exo[u]) =>
        w1_enc = w1_changed_exo

\* C6 witness: the round trip was made on a non-empty, partial change set
\* all of whose values differ from the baseline.
C6_Witness ==
    /\ CodecDone
    /\ w1_changed_exo # EmptyDict
    /\ DOMAIN w1_changed_exo # DOMAIN w_exo
    /\ \A u \in DOMAIN w1_changed_exo : w1_changed_exo[u] # w_exo[u]

\* C7: demotion is observed downstream: when the call of cfi is over, the
\* function of an endo-node u has been invoked if and only if some direct
\* parent of u has a new value (its value under the decoded exo assignment)
\* different from its baseline value.
C7_InvokedIffParentChanged ==
    CfiOver =>
        \A u \in endo_nodes :
            u \in r_cfi.invoked <=>
                \E p \in parents(u) : vfi(w1_exo)[p] # w0[p]

\* C8: no-op change set: if every entry of the change set has the baseline's
\* value, cfi returns the baseline, on every node, after 0 invocations.
C8_NoOpChangeSet ==
    (CfiOver /\ \A u \in DOMAIN w1_changed_exo : w1_changed_exo[u] = w0[u]) =>
        /\ r_cfi.outcome = "return"
        /\ r_cfi.COUNT = 0
        /\ r_cfi.invoked = {}
        /\ DOMAIN r_cfi.value = Nodes
        /\ r_cfi.value = w0

\* C8 witness: cfi returned for a non-empty change set without a real change,
\* on a graph that has endo-nodes below the exo-nodes named in it.
C8_Witness ==
    /\ r_cfi.outcome = "return"
    /\ w1_changed_exo # EmptyDict
    /\ \A u \in DOMAIN w1_changed_exo : w1_changed_exo[u] = w0[u]
    /\ \E e \in graph : e[1] \in DOMAIN w1_changed_exo

\* C9: cost upper bound: at every point of a call of cfi, and when it is over,
\* the number of invocations is at most the number of endo-nodes.
C9_CostUpperBound ==
    /\ pc = "cfi_loop" => COUNT <= Cardinality(endo_nodes)
    /\ r_cfi.COUNT <= Cardinality(endo_nodes)

\* C9 witness: a call of cfi with a real change, on a graph with an endo-node
\* below the changed exo-node, is over.
C9_Witness ==
    /\ CfiOver
    /\ \E e \in graph : e[1] \in ChangedRoots

\* C10 as claimed: whenever some exo-node keeps its baseline value, the number
\* of invocations of a call of cfi that returned is strictly less than the
\* number of endo-nodes.
C10_StrictSaving_Original ==
    (r_cfi.outcome = "return" /\ exo_nodes \ ChangedRoots # {}) =>
        r_cfi.COUNT < Cardinality(endo_nodes)

\* C10 as amended: cfi invokes only functions of endo-nodes that have a
\* changed exo-node among their ancestors; so whenever some endo-node has no
\* changed exo-node among its ancestors, the number of invocations of cfi is
\* strictly less than the number of endo-nodes.
C10_StrictSaving ==
    CfiOver =>
        /\ r_cfi.COUNT <= Cardinality(Affected)
        /\ (endo_nodes \ Affected # {} => r_cfi.COUNT < Cardinality(endo_nodes))

\* C10 witness: a call of cfi is over in which one exo-node changed, another
\* kept its value, and an endo-node has no changed exo-node among its
\* ancestors.
C10_Witness ==
    /\ CfiOver
    /\ ChangedRoots # {}
    /\ exo_nodes \ ChangedRoots # {}
    /\ endo_nodes \ Affected # {}

\* Some key of the change set has no path to some endo-node.
SomeChangeMissesSomeEndo ==
    \E r \in DOMAIN w1_changed_exo : \E d \in endo_nodes : r \notin Ancestors(d)

\* C11: whenever some exo-node keeps its baseline value and it is not the case
\* that every exo-node of the change set has a path to every endo-node, the
\* number of function invocations of cfi is strictly less than the number of
\* endo-nodes.
C11_StrictSavingPaths ==
    (CfiOver /\ exo_nodes \ ChangedRoots # {} /\ SomeChangeMissesSomeEndo) =>
        r_cfi.COUNT < Cardinality(endo_nodes)

\* C11 witness: a call of cfi is over in which one exo-node changed value,
\* another kept its value, and the changed one has no path to some endo-node.
C11_Witness ==
    /\ CfiOver
    /\ exo_nodes \ ChangedRoots # {}
    /\ \E r \in ChangedRoots : \E d \in endo_nodes : r \notin Ancestors(d)

\* Both encodings of test_delta_compression have been made.
EncodedBothWays == pc = "decode_again" \/ CodecDone

\* C17: for w1_exo and w_exo, which have the same keys, delta_encode(w1_exo,
\* w_exo) has exactly the keys at which the two differ, each with the value of
\* w1_exo; so its size is the number of differing keys, which is also the
\* size of delta_encode(w_exo, w1_exo).
C17_EncodeKeepsDiffering ==
    (EncodedBothWays /\ DOMAIN w1_exo = DOMAIN w_exo) =>
        LET differing == {k \in DOMAIN w1_exo : w1_exo[k] # w_exo[k]}
        IN  /\ DOMAIN w1_enc = differing
            /\ \A k \in differing : w1_enc[k] = w1_exo[k]
            /\ Cardinality(DOMAIN w1_enc) = Cardinality(differing)
            /\ Cardinality(DOMAIN w0_enc) = Cardinality(DOMAIN w1_enc)

\* C17 witness: both encodings are made of two assignments over the same keys
\* that differ at one key and agree at another.
C17_Witness ==
    /\ pc = "decode_again"
    /\ DOMAIN w1_exo = DOMAIN w_exo
    /\ \E k \in DOMAIN w1_exo : w1_exo[k] # w_exo[k]
    /\ \E k \in DOMAIN w1_exo : w1_exo[k] = w_exo[k]

\* The targets plus everything reachable backward along edges.
AncestorClosure(T) == UNION {Ancestors(t) : t \in T}

\* partial_vfi or partial_cfi is in its loop or has left it.
InPartial == pc \in {"pvfi_loop", "pvfi_done", "pcfi_loop", "pcfi_done"}

\* C18: in every state of partial_vfi and of partial_cfi, every node on the
\* stack (hence every node popped from it) and every node whose function has
\* been invoked lies in the ancestor closure of target_nodes.
C18_AncestorClosure ==
    (InPartial /\ target_nodes \subseteq Nodes) =>
        /\ \A i \in DOMAIN stack : stack[i] \in AncestorClosure(target_nodes)
        /\ invoked \subseteq AncestorClosure(target_nodes)

\* C18 witness: partial_vfi has invoked the function of a node and has a node
\* on its stack, while some endo-node is outside the ancestor closure of the
\* targets.
C18_Witness ==
    /\ pc = "pvfi_loop"
    /\ stack # <<>>
    /\ invoked # {}
    /\ endo_nodes \ AncestorClosure(target_nodes) # {}

\* vfi is about to invoke the function of the node at idx.
VfiInvokes(node) ==
    /\ pc = "vfi_loop" /\ idx <= Len(topological_order)
    /\ node = topological_order[idx]
    /\ node \notin DOMAIN w

\* cfi is about to invoke the function of the node at idx.
CfiInvokes(node) ==
    /\ pc = "cfi_loop" /\ idx <= Len(topological_order)
    /\ node = topological_order[idx]
    /\ cfi_recompute(changed, node)
    /\ hasattr("is_exo_node") /\ ~is_exo_node(node)

\* partial_vfi is about to invoke the function of the node on top of the stack.
PartialVfiInvokes(node) ==
    /\ pc = "pvfi_loop" /\ stack # <<>>
    /\ node = stack[Len(stack)]
    /\ node \notin DOMAIN w /\ parents(node) # {}
    /\ unknown_parents(node, DOMAIN w) = {}

\* partial_cfi is about to invoke the function of the node on top of the stack.
PartialCfiInvokes(node) ==
    /\ pc = "pcfi_loop" /\ stack # <<>>
    /\ node = stack[Len(stack)]
    /\ node \notin DOMAIN changed
    /\ hasattr("is_exo_node") /\ ~is_exo_node(node)
    /\ unknown_parents(node, DOMAIN changed) = {}
    /\ \E p \in parents(node) : changed[p]

\* C19: whenever an evaluator is about to invoke the function of an endo-node,
\* every parent of the node has a value in the mapping handed to the function
\* (in partial_cfi: is classified, and has a new value if it changed); so no
\* invocation ever fails on a missing parent.
C19_DependencyOrder ==
    /\ pc # "vfi_failed"
    /\ r_cfi.outcome # "KeyError" /\ r_pvfi.outcome # "KeyError"
    /\ r_pcfi.outcome # "KeyError"
    /\ \A node \in Nodes :
          /\ VfiInvokes(node) => parents(node) \subseteq DOMAIN w
          /\ CfiInvokes(node) => parents(node) \subseteq DOMAIN w
          /\ PartialVfiInvokes(node) => parents(node) \subseteq DOMAIN w
          /\ PartialCfiInvokes(node) =>
                \A p \in parents(node) :
                    p \in DOMAIN changed /\ (changed[p] => p \in DOMAIN w)

\* C19 witness: partial_vfi is about to invoke the function of a node that has
\* a parent whose value was computed earlier in the same call.
C19_Witness ==
    \E node \in Nodes :
        /\ PartialVfiInvokes(node)
        /\ parents(node) \cap invoked # {}

\* The call of partial_vfi ended with its loop run to an empty stack and a
\* value for every target.
PartialVfiTerminates ==
    pc = "pvfi_done" =>
        /\ r_pvfi.outcome = "return"
        /\ stack = <<>>
        /\ target_nodes \subseteq DOMAIN w

\* The call of partial_cfi ended with its loop run to an empty stack and a
\* changed/unchanged classification for every target.
PartialCfiTerminates ==
    pc = "pcfi_done" =>
        /\ r_pcfi.outcome = "return"
        /\ stack = <<>>
        /\ target_nodes \subseteq DOMAIN changed

\* C20: on an acyclic model with valid roots, baseline, change set and
\* targets, a call of partial_vfi or of partial_cfi ends only by its loop
\* emptying the stack, and then every target is resolved, so that the result
\* is built for all targets.
C20_Termination ==
    /\ PartialVfiTerminates
    /\ PartialCfiTerminates

-----------------------------------------------------------------------------
(* The two consistency checkers of SFM called on one dict: any total
   assignment over the nodes, consistent with the functions or not, its keys
   inserted in any order; the same with its last key left out; the same with
   a key that is no node of the graph added. *)

\* The total assignments over the nodes, as dicts built in any order.
TotalAssignments ==
    {items(d, order) : d \in [Nodes -> Values], order \in Orders(Nodes)}

\* The dicts the checkers are called on.
GivenAssignments ==
    TotalAssignments
        \cup {SubSeq(w_total, 1, NumNodes - 1) : w_total \in TotalAssignments}
        \cup {Append(w_total, <<Stranger, AnyValue>>) : w_total \in TotalAssignments}

Init_Chk ==
    /\ graph \in SUBSET AllEdges
    /\ fa \in [graph -> 1..(Modulus - 1)]
    /\ fc \in [endo_nodes -> 1..(Modulus - 1)]
    /\ w_given \in GivenAssignments
    /\ pc = "satisfied_by_call"
    /\ r_sat = NoResult
    /\ r_viol = NoResult
    /\ w_exo = EmptyDict
    /\ w0 = EmptyDict
    /\ w1_changed_exo = EmptyDict
    /\ w1_exo = EmptyDict
    /\ w1_enc = EmptyDict
    /\ w0_enc = EmptyDict
    /\ w1_dec = EmptyDict
    /\ target_nodes = {}
    /\ w = EmptyDict
    /\ changed = EmptyDict
    /\ idx = 0
    /\ stack = <<>>
    /\ COUNT = 0
    /\ invoked = {}
    /\ r_cfi = NoResult
    /\ r_pvfi = NoResult
    /\ r_pcfi = NoResult
    /\ pushed_back = <<>>

\* sfm.satisfied_by(w_given)
SatisfiedBy ==
    /\ pc = "satisfied_by_call"
    /\ r_sat' = satisfied_by(w_given)
    /\ pc' = "all_violations_call"
    /\ UNCHANGED <<pushed_back, w_given, r_viol,
                   graph, fa, fc, w_exo, w0, w1_changed_exo, w1_exo, w1_enc, w0_enc, w1_dec,
                   target_nodes, w, changed, idx, stack, COUNT, invoked,
                   r_cfi, r_pvfi, r_pcfi>>

\* sfm.all_violations(w_given)
AllViolations ==
    /\ pc = "all_violations_call"
    /\ r_viol' = all_violations(w_given)
    /\ pc' = "checked"
    /\ UNCHANGED <<pushed_back, w_given, r_sat,
                   graph, fa, fc, w_exo, w0, w1_changed_exo, w1_exo, w1_enc, w0_enc, w1_dec,
                   target_nodes, w, changed, idx, stack, COUNT, invoked,
                   r_cfi, r_pvfi, r_pcfi>>

Next_Chk ==
    \/ SatisfiedBy
    \/ AllViolations

SpecChk == Init_Chk /\ [][Next_Chk]_vars

-----------------------------------------------------------------------------
(* The rejection of bad input, under SpecErr. *)

\* The graph has a cycle.
HasCycle == \E n \in Nodes : <<n, n>> \in Closure(graph, NumNodes)

\* The keys of the root values are not exactly the exo-nodes.
BadRoots == DOMAIN w_exo # exo_nodes

\* The baseline handed to cfi and partial_cfi misses a node of the graph.
BaselineMissesNode == CodecDone /\ ~(Nodes \subseteq DOMAIN w0)

\* The baseline handed to cfi and partial_cfi has a key that is no node.
BaselineHasExtraKey == CodecDone /\ ~(DOMAIN w0 \subseteq Nodes)

\* The change set handed to cfi and partial_cfi has a key that is no exo-node.
BadChange == CodecDone /\ ~(DOMAIN w1_changed_exo \subseteq exo_nodes)

\* The targets handed to partial_vfi or partial_cfi include a node that is not
\* in the graph.
BadTargets == ~(target_nodes \subseteq Nodes)

\* C12 as the spec has it: whenever the baseline misses a node of the graph or
\* has a key that is no node, cfi and partial_cfi end in an error: neither
\* enters its loop and neither returns a result.
C12_BaselineCoverage_Original ==
    (BaselineMissesNode \/ BaselineHasExtraKey) =>
        /\ pc \notin {"cfi_loop", "pcfi_loop"}
        /\ r_cfi.outcome # "return"
        /\ r_pcfi.outcome # "return"

\* C12 as amended: whenever the baseline misses a node of the graph, cfi ends
\* in an AssertionError before its loop, with no result and no function
\* invoked.
C12_BaselineCoverage ==
    BaselineMissesNode =>
        /\ pc # "cfi_loop"
        /\ pc # "cfi_call" => r_cfi = Raised("AssertionError", 0, {})

\* C12 witness: cfi was called with a change set and a baseline that misses a
\* node, and has raised.
C12_Witness ==
    /\ BaselineMissesNode
    /\ pc = "cfi_done"
    /\ w1_changed_exo # EmptyDict
    /\ r_cfi.outcome = "AssertionError"

\* C13: whenever the keys of the root values are not exactly the exo-nodes,
\* vfi and partial_vfi end in an AssertionError: neither enters its loop, no
\* function is invoked and nothing is returned.
C13_RootCoverage ==
    BadRoots =>
        /\ pc \notin {"vfi_loop", "pvfi_loop"}
        /\ pc = "vfi_failed" => (w0 = EmptyDict /\ w = EmptyDict /\ invoked = {})
        /\ pc = "pvfi_done" => r_pvfi = Raised("AssertionError", 0, {})
        /\ r_pvfi.outcome \in {"none", "AssertionError"}

\* C13 witness: after vfi failed on root values over the wrong keys,
\* partial_vfi was called with them for some target, and has raised.
C13_Witness ==
    /\ BadRoots
    /\ pc = "pvfi_done"
    /\ target_nodes # {}
    /\ r_pvfi.outcome = "AssertionError"

\* C14: on a graph with a cycle, each of vfi, cfi, partial_vfi and partial_cfi
\* fails with an AssertionError before its loop: nothing is put on the stack,
\* no value is computed and no function is invoked.
C14_CycleRejected ==
    HasCycle =>
        /\ pc \notin {"vfi_loop", "cfi_loop", "pvfi_loop", "pcfi_loop"}
        /\ stack = <<>> /\ w = EmptyDict /\ invoked = {} /\ COUNT = 0
        /\ pc = "cfi_done" => r_cfi = Raised("AssertionError", 0, {})
        /\ pc = "pvfi_done" => r_pvfi = Raised("AssertionError", 0, {})
        /\ pc = "pcfi_done" =>
              /\ r_cfi = Raised("AssertionError", 0, {})
              /\ r_pcfi = Raised("AssertionError", 0, {})

\* C14 witness: on a graph with a cycle, cfi and then partial_cfi were called
\* for some target, and both have raised.
C14_Witness ==
    /\ HasCycle
    /\ pc = "pcfi_done"
    /\ target_nodes # {}
    /\ r_pcfi.outcome = "AssertionError"

\* C15: whenever the targets include a node that is not in the graph,
\* partial_vfi and partial_cfi end in an error before their loop, and return
\* nothing.
C15_TargetsRejected ==
    BadTargets =>
        /\ pc \in {"pvfi_done", "pcfi_done"}
        /\ stack = <<>>
        /\ pc = "pvfi_done" => r_pvfi = Raised("AssertionError", 0, {})
        /\ pc = "pcfi_done" =>
              /\ r_pcfi.outcome \in {"ValueError", "AttributeError"}
              /\ r_pcfi.value = EmptyDict

\* C15 witness: partial_cfi was called with no change and targets that include
\* a node of the graph and a node outside it, and has raised ValueError.
C15_Witness ==
    /\ BadTargets
    /\ target_nodes \cap Nodes # {}
    /\ pc = "pcfi_done"
    /\ r_pcfi.outcome = "ValueError"

\* C16: whenever the change set has a key that is no exo-node, cfi and
\* partial_cfi end in an error before their loop, with no result and no
\* function invoked.
C16_ChangeSetRejected ==
    BadChange =>
        /\ pc \notin {"cfi_loop", "pcfi_loop"}
        /\ pc # "cfi_call" =>
              /\ invoked = {} /\ COUNT = 0
              /\ r_cfi = Raised("AssertionError", 0, {})
        /\ pc = "pcfi_done" =>
              /\ r_pcfi.outcome \notin {"none", "return"}
              /\ r_pcfi.value = EmptyDict
              /\ r_pcfi.COUNT = 0 /\ r_pcfi.invoked = {}

\* C16 witness: cfi and then partial_cfi were called with a change set that
\* has an exo-node and a key that is no exo-node, and both have raised.
C16_Witness ==
    /\ BadChange
    /\ DOMAIN w1_changed_exo \cap exo_nodes # {}
    /\ pc = "pcfi_done"
    /\ r_cfi.outcome = "AssertionError"
    /\ r_pcfi.outcome \notin {"none", "return"}

-----------------------------------------------------------------------------
(* The stack discipline of the partial evaluators, under Spec. *)

\* partial_vfi or partial_cfi is in its loop.
InPartialLoop == pc \in {"pvfi_loop", "pcfi_loop"}

\* Every value recorded in w (w of partial_vfi, w1_c of partial_cfi) and every
\* classification recorded in changed is the same after the step.
RecordsKept ==
    /\ \A u \in DOMAIN w : u \in DOMAIN w' /\ w'[u] = w[u]
    /\ \A u \in DOMAIN changed : u \in DOMAIN changed' /\ changed'[u] = changed[u]

\* C21: within a call of partial_vfi or partial_cfi the number of function
\* invocations is the number of distinct nodes invoked, so no node's function
\* is invoked twice, and no step of the loop changes a value or a
\* classification that is already recorded.
C21_AtMostOnce ==
    /\ [](InPartial => COUNT = Cardinality(invoked))
    /\ [][InPartialLoop => RecordsKept]_vars

\* C21 witness: partial_vfi has invoked the function of a node that is still
\* on the stack, so the node was on the stack more than once.
C21_Witness ==
    /\ pc = "pvfi_loop"
    /\ \E i \in DOMAIN stack : stack[i] \in invoked

\* The nodes that have been pushed back in the running call.
PushedBack == {pushed_back[i] : i \in DOMAIN pushed_back}

\* C22: in partial_vfi and partial_cfi, when a node that was pushed back
\* comes to the top of the stack unresolved, all its parents are resolved, so
\* it is computed or classified on that pop; and no node is pushed back twice
\* in one call.
C22_PushBackOnce ==
    InPartial =>
        /\ \A i, j \in DOMAIN pushed_back :
              i # j => pushed_back[i] # pushed_back[j]
        /\ (pc = "pvfi_loop" /\ stack # <<>>) =>
              LET node == stack[Len(stack)]
              IN  (node \in PushedBack /\ node \notin DOMAIN w) =>
                      parents(node) \subseteq DOMAIN w
        /\ (pc = "pcfi_loop" /\ stack # <<>>) =>
              LET node == stack[Len(stack)]
              IN  (node \in PushedBack /\ node \notin DOMAIN changed) =>
                      parents(node) \subseteq DOMAIN changed

\* C22 witness: partial_vfi pushed a node back and the node is on top of the
\* stack again, unresolved, with its parent computed in between.
C22_Witness ==
    /\ pc = "pvfi_loop"
    /\ stack # <<>>
    /\ stack[Len(stack)] \in PushedBack
    /\ stack[Len(stack)] \notin DOMAIN w
    /\ parents(stack[Len(stack)]) \cap invoked # {}

-----------------------------------------------------------------------------
(* The evaluators and their input, under Spec. *)

\* C23: no step changes the graph, the node functions or the root values; no
\* step of cfi, partial_cfi or the codec changes the baseline or the change
\* set; no step of the codec changes the assignment or the delta it is
\* given; no step of a partial evaluator changes the targets.
C23_InputsUnchanged ==
    [][/\ graph' = graph /\ fa' = fa /\ fc' = fc
       /\ w_exo' = w_exo
       /\ pc # "vfi_loop" => w0' = w0
       /\ pc # "idle" => w1_changed_exo' = w1_changed_exo
       /\ pc \in {"encode", "encode_back"} => w1_exo' = w1_exo
       /\ pc = "decode_again" => w1_enc' = w1_enc
       /\ InPartialLoop => target_nodes' = target_nodes]_vars

\* C23 witness: partial_vfi has returned after computing a value, so its
\* dict, which began as a copy of the root values, has been written to.
C23_Witness ==
    /\ pc = "pvfi_done"
    /\ r_pvfi.outcome = "return"
    /\ invoked # {}
    /\ w # w_exo

\* The endo-nodes in the ancestor closure of the targets: the nodes whose
\* function partial_vfi invokes for these targets.
EndoAncestors == endo_nodes \cap AncestorClosure(target_nodes)

\* C24: when cfi and then partial_cfi have been called with the same baseline
\* and change set, the nodes whose function partial_cfi invoked are the nodes
\* whose function cfi invoked that lie in the ancestor closure of the targets;
\* so partial_cfi made no more invocations than cfi, and no more than
\* partial_vfi makes for the same targets, which is one for every endo-node in
\* the closure.
C24_DeltaPartialCompound ==
    /\ pc = "pcfi_done" =>
          /\ r_pcfi.invoked = r_cfi.invoked \cap AncestorClosure(target_nodes)
          /\ r_pcfi.COUNT <= r_cfi.COUNT
          /\ r_pcfi.COUNT <= Cardinality(EndoAncestors)
    /\ (pc = "pvfi_done" /\ r_pvfi.outcome = "return") =>
          /\ r_pvfi.invoked = EndoAncestors
          /\ r_pvfi.COUNT = Cardinality(EndoAncestors)

\* C24 witness: cfi and partial_cfi are over for a change set that changes an
\* exo-node and a target that is an endo-node with that exo-node among its
\* ancestors.
C24_Witness ==
    /\ pc = "pcfi_done"
    /\ ChangedRoots # {}
    /\ target_nodes \cap Affected # {}

-----------------------------------------------------------------------------
(* The consistency checkers, under SpecChk. *)

\* C25: for a total assignment over the nodes, whatever the order of its
\* keys, both checkers return, satisfied_by is true exactly when
\* all_violations is the empty list, and every triple of all_violations is
\* (node, expected, actual) for an endo-node, with actual the value given to
\* the node, expected the value of the node's function on the values given to
\* its parents, and the two different.
C25_CheckersAgree ==
    (pc = "checked" /\ keys(w_given) = Nodes) =>
        /\ r_sat.outcome = "return"
        /\ r_viol.outcome = "return"
        /\ r_sat.value <=> (r_viol.value = <<>>)
        /\ \A i \in DOMAIN r_viol.value :
              LET node == r_viol.value[i][1]
                  expected == r_viol.value[i][2]
                  actual == r_viol.value[i][3]
              IN  /\ node \in endo_nodes
                  /\ actual = lookup(w_given, node)
                  /\ expected = functions(node, w_parent(w_given, node))
                  /\ expected # actual

\* C25 witness: both checkers were called on a total assignment that two nodes
\* violate, the later node inserted first; satisfied_by said no and
\* all_violations lists both, in the order of insertion.
C25_Witness ==
    /\ pc = "checked"
    /\ keys(w_given) = Nodes
    /\ r_sat = Returned(FALSE, 0, {})
    /\ r_viol.outcome = "return"
    /\ Len(r_viol.value) = 2
    /\ r_viol.value[1][1] > r_viol.value[2][1]

====
